---- MODULE Spec2Model ----
(***************************************************************************)
(* The CME question pipeline of backend/app: run_cme_query                 *)
(* (services/cme_query.py), the profile resolver                           *)
(* build_effective_physician_profile (services/physician_profile.py) and   *)
(* the ask endpoint ask_cme (api/routes/ask_cme.py).                       *)
(*                                                                         *)
(* Optional values (Python None / SQL NULL) are sequences of length <= 1:  *)
(* <<>> is None and <<v>> is the value v.  Strings that the code trims or  *)
(* lowercases are sequences of one-character strings.                      *)
(***************************************************************************)
EXTENDS Integers, Sequences, FiniteSets, TLC

\* ------------------------------------------------------------------ bounds
MaxChunks == 3
MaxEntity == 2
MaxEventsArg == 2
MaxRows == 130

\* ------------------------------------------------------------ basic values
None == <<>>
Some(v) == <<v>>

Runs == {1, 2}
Entities == 1..MaxEntity
Owners == {None} \cup {Some(e) : e \in Entities}

KnownPid == 1
UnknownPid == 2

\* --------------------------------------------------------------- strings
Whitespace == {" ", "\t"}

\* A string is a sequence of tokens: a whitespace character, or a run of
\* non-blank characters, of which LowerChar gives the lowercase form.
LowerChar(c) ==
  CASE c = "Online" -> "online"
    [] c = "LIVE" -> "live"
    [] c = "No_Travel" -> "no_travel"
    [] c = "LOCAL_ONLY" -> "local_only"
    [] c = "AMA" -> "ama"
    [] OTHER -> c

\* str.lower()
Lower(s) == [i \in 1..Len(s) |-> LowerChar(s[i])]

RECURSIVE LStrip(_)
LStrip(s) ==
  IF s = <<>> THEN <<>>
  ELSE IF Head(s) \in Whitespace THEN LStrip(Tail(s)) ELSE s

RECURSIVE RStrip(_)
RStrip(s) ==
  IF s = <<>> THEN <<>>
  ELSE IF s[Len(s)] \in Whitespace THEN RStrip(SubSeq(s, 1, Len(s) - 1)) ELSE s

\* str.strip()
Strip(s) == RStrip(LStrip(s))

\* Python truthiness of an Optional[str]: None and "" are falsy
Truthy(o) == o # None /\ o[1] # <<>>

\* x or ""
OrEmpty(o) == IF o = None THEN <<>> ELSE o[1]

\* ------------------------------------------------------- fixed answer texts
EMPTY_ANSWER ==
  "Please provide a non-empty question about what CME you are looking for."
NO_MATCH_ANSWER ==
  "I couldn't find any CME activities that match your question in the current catalog."
NO_ELIGIBLE_ANSWER ==
  "I found CME content in the system, but none matched the filters/preferences provided."
LLM_FALLBACK_ANSWER ==
  "I found CME activities matching your question, but could not generate a personalized explanation at this moment. Here are the recommended CME activities based on semantic relevance."
REASON_TEXT ==
  "High semantic similarity to your question and alignment with your profile/preferences."

\* ------------------------------------------------------- profile resolver
\* The relational store holds rows for the physician KnownPid only:
\*   d.physician  the physician row joined with its specialty, or None
\*   d.pref       the physician_preference row, or None
\*   d.completed  the cme_event_id values of physician_completed_cme
\*   d.events     cme_event rows by id (None: no row)
PhysicianRow(d, pid) == IF pid = KnownPid THEN d.physician ELSE None
PrefRow(d, pid) == IF pid = KnownPid THEN d.pref ELSE None

\* (mutation of CompletedRows: the query lacks its WHERE physician_id = :pid)
CompletedRowsOfAnyone(d, pid) == d.completed

\* physician_profile.py 100-110
CompletedRows(d, pid) == IF pid = KnownPid THEN d.completed ELSE {}

\* (mutation of TravelOkOf: local_only is not among the classes that forbid travel)
TravelOkOfNoTravelOnly(pref_row) ==
  ~(Lower(OrEmpty(pref_row.travel_pref)) \in {<<"no_travel">>})

\* travel_pref -> travel_ok (physician_profile.py 88-92)
TravelOkOf(pref_row) ==
  ~(Lower(OrEmpty(pref_row.travel_pref)) \in {<<"no_travel">>, <<"local_only">>})

\* the request's part in travel_ok: none (the field stays None after seeding)
SeedTravelOk(req) == None

\* "if pid:" -- None and 0 are falsy
HasPid(req) == req.physician_id # None /\ req.physician_id[1] # 0

build_effective_physician_profile(d, req) ==
  LET pid == req.physician_id
      physician_row == IF HasPid(req) THEN PhysicianRow(d, pid[1]) ELSE None
      pref_row == IF HasPid(req) THEN PrefRow(d, pid[1]) ELSE None
      specialty ==
        IF physician_row # None /\ ~Truthy(req.specialty)
           /\ Truthy(physician_row[1].specialty_name)
        THEN physician_row[1].specialty_name
        ELSE req.specialty
      merged_format ==
        IF pref_row # None /\ ~Truthy(req.preferred_format)
           /\ Truthy(pref_row[1].modality_pref)
        THEN pref_row[1].modality_pref
        ELSE req.preferred_format
      travel ==
        IF pref_row # None THEN Some(TravelOkOf(pref_row[1])) ELSE SeedTravelOk(req)
  IN [physician_id |-> pid,
      specialty |-> specialty,
      state |-> req.state,
      preferred_format |->
        IF Truthy(merged_format) THEN Some(Lower(Strip(merged_format[1])))
        ELSE merged_format,
      min_credits |-> req.min_credits,
      credit_type |-> req.credit_type,
      travel_ok |-> IF travel = None THEN TRUE ELSE travel[1],
      missing_requirements |-> <<>>,
      completed_cme_ids |->
        IF HasPid(req) THEN CompletedRows(d, pid[1]) ELSE {}]

\* ------------------------------------------------- aggregation and ranking
\* (mutation of ChunkScore: the position counted from 1)
ChunkScoreOneBased(total_chunks, idx) == total_chunks - (idx + 1)

\* rank-based score of the chunk at 0-based position idx (cme_query.py 120)
ChunkScore(total_chunks, idx) == total_chunks - idx

\* cme_map is kept as the sequence of its entries in insertion order, which is
\* the order a Python dict iterates in.
\* (mutation of AddChunk: every owned chunk opens an entry of its own)
AddChunkNoMerge(cme_map, ch, score) ==
  IF ch.source_id = None THEN cme_map
  ELSE Append(cme_map, [id |-> ch.source_id[1], score |-> score, chunks |-> <<ch>>])

AddChunk(cme_map, ch, score) ==
  IF ch.source_id = None THEN cme_map
  ELSE LET cme_id == ch.source_id[1]
           at == {i \in 1..Len(cme_map) : cme_map[i].id = cme_id}
       IN IF at = {}
          THEN Append(cme_map, [id |-> cme_id, score |-> score, chunks |-> <<ch>>])
          ELSE LET i == CHOOSE j \in at : TRUE
               IN [cme_map EXCEPT ![i] = [id |-> cme_id,
                                          score |-> @.score + score,
                                          chunks |-> Append(@.chunks, ch)]]

\* (mutation of GroupChunks: the chunks without owner are dropped before the
\* chunks are counted and ranked)
HasOwner(ch) == ch.source_id # None

RECURSIVE GroupOwned(_, _, _)
GroupOwned(owned, idx, cme_map) ==
  IF idx >= Len(owned) THEN cme_map
  ELSE GroupOwned(owned, idx + 1,
                  AddChunk(cme_map, owned[idx + 1], Len(owned) - idx))

GroupChunksOwnedOnly(chunks, idx, cme_map) ==
  GroupOwned(SelectSeq(chunks, HasOwner), idx, cme_map)

\* cme_query.py 111-127
RECURSIVE GroupChunks(_, _, _)
GroupChunks(chunks, idx, cme_map) ==
  IF idx >= Len(chunks) THEN cme_map
  ELSE GroupChunks(chunks, idx + 1,
                   AddChunk(cme_map, chunks[idx + 1], ChunkScore(Len(chunks), idx)))

\* (mutation of InsertByScore: an entry goes ahead of the entries of equal
\* score, as an unstable sort may place it)
InsertByScoreAhead(sorted, e) ==
  LET k == Cardinality({i \in 1..Len(sorted) : sorted[i].score > e.score})
  IN SubSeq(sorted, 1, k) \o <<e>> \o SubSeq(sorted, k + 1, Len(sorted))

\* place of e in a list sorted by descending score: behind every entry whose
\* score is not smaller (sorted(..., reverse=True) is stable)
InsertByScore(sorted, e) ==
  LET k == Cardinality({i \in 1..Len(sorted) : sorted[i].score >= e.score})
  IN SubSeq(sorted, 1, k) \o <<e>> \o SubSeq(sorted, k + 1, Len(sorted))

RECURSIVE SortEvents(_)
SortEvents(cme_map) ==
  IF cme_map = <<>> THEN <<>>
  ELSE InsertByScore(SortEvents(SubSeq(cme_map, 1, Len(cme_map) - 1)),
                     cme_map[Len(cme_map)])

CandidateIds(sorted_evs) == {sorted_evs[i].id : i \in 1..Len(sorted_evs)}

\* ------------------------------------------------------ eligibility filter
\* float(ev.credits or 0)
CreditsOf(ev) == IF ev.credits = None THEN 0 ELSE ev.credits[1]

\* the preference as run_cme_query normalises it again (cme_query.py 99-100)
NormFormat(preferred_format) ==
  IF preferred_format = None THEN None ELSE Some(Lower(Strip(preferred_format[1])))

CompletedCheck(ev, completed_cme_ids) == ev.id \notin completed_cme_ids

\* (mutation of CreditsCheck: an event with exactly min_credits is rejected)
CreditsCheckExclusive(ev, min_credits) ==
  min_credits # None => ~(CreditsOf(ev) <= min_credits[1])

\* cme_query.py 165-171
CreditsCheck(ev, min_credits) ==
  min_credits # None => ~(CreditsOf(ev) < min_credits[1])

\* (mutation of FormatCheck: an event without a format is rejected)
FormatCheckStrict(ev, preferred_format) ==
  Truthy(preferred_format) =>
    Lower(Strip(OrEmpty(ev.format))) = preferred_format[1]

\* cme_query.py 174-177
FormatCheck(ev, preferred_format) ==
  Truthy(preferred_format) =>
    LET ev_fmt == Lower(Strip(OrEmpty(ev.format)))
    IN ~(ev_fmt # <<>> /\ ev_fmt # preferred_format[1])

\* "a in b" for strings: a occurs in b as a run of consecutive tokens
Contains(b, a) ==
  \E i \in 0..(Len(b) - Len(a)) : SubSeq(b, i + 1, i + Len(a)) = a

\* cme_query.py 180-182: the event's credit type does not hold the preference
CreditTypeMismatch(ev, credit_type_pref) ==
  /\ Truthy(credit_type_pref)
  /\ LET ev_ct == Lower(Strip(OrEmpty(ev.credit_type)))
     IN ev_ct # <<>> /\ ~Contains(ev_ct, Lower(Strip(credit_type_pref[1])))

\* (mutation of CreditTypeCheck: a mismatch rejects the event)
CreditTypeCheckHard(ev, credit_type_pref) == ~CreditTypeMismatch(ev, credit_type_pref)

\* cme_query.py 179-184: a mismatch is passed over ("pass")
CreditTypeCheck(ev, credit_type_pref) == CreditTypeMismatch(ev, credit_type_pref) => TRUE

_eligible(ev, prof) ==
  /\ CompletedCheck(ev, prof.completed_cme_ids)
  /\ CreditsCheck(ev, prof.min_credits)
  /\ FormatCheck(ev, NormFormat(prof.preferred_format))
  /\ CreditTypeCheck(ev, prof.credit_type)

Triple(entry, ev) ==
  [id |-> entry.id, meta |-> [score |-> entry.score, chunks |-> entry.chunks], ev |-> ev]

\* (mutation of CapReached: the comparison off by one)
CapReachedLate(n, maxEv) == n > maxEv

\* cme_query.py 197: the loop ends once max_events events are selected
CapReached(n, maxEv) == n >= maxEv

\* (mutation of FilterLoop: only the first max_events candidates are looked at,
\* so a skipped candidate uses up a place)
RECURSIVE FilterLoopSliced(_, _, _, _, _, _)
FilterLoopSliced(sorted_evs, by_id, prof, maxEv, i, acc) ==
  IF i > Len(sorted_evs) \/ i > maxEv THEN acc
  ELSE LET ev == by_id[sorted_evs[i].id]
       IN IF ev = None \/ ~_eligible(ev[1], prof)
          THEN FilterLoopSliced(sorted_evs, by_id, prof, maxEv, i + 1, acc)
          ELSE FilterLoopSliced(sorted_evs, by_id, prof, maxEv, i + 1,
                                Append(acc, Triple(sorted_evs[i], ev[1])))

\* the loop of cme_query.py 188-198, from position i on
RECURSIVE FilterLoop(_, _, _, _, _, _)
FilterLoop(sorted_evs, by_id, prof, maxEv, i, acc) ==
  IF i > Len(sorted_evs) THEN acc
  ELSE LET ev == by_id[sorted_evs[i].id]
       IN IF ev = None \/ ~_eligible(ev[1], prof)
          THEN FilterLoop(sorted_evs, by_id, prof, maxEv, i + 1, acc)
          ELSE LET acc2 == Append(acc, Triple(sorted_evs[i], ev[1]))
               IN IF CapReached(Len(acc2), maxEv) THEN acc2
                  ELSE FilterLoop(sorted_evs, by_id, prof, maxEv, i + 1, acc2)

\* sorted_events[:max_events]
TopSlice(sorted_evs, maxEv) ==
  SubSeq(sorted_evs, 1, IF maxEv < Len(sorted_evs) THEN maxEv ELSE Len(sorted_evs))

RECURSIVE WithMetadata(_, _, _)
WithMetadata(evs, by_id, i) ==
  IF i > Len(evs) THEN <<>>
  ELSE LET ev == by_id[evs[i].id]
           rest == WithMetadata(evs, by_id, i + 1)
       IN IF ev = None THEN rest ELSE <<Triple(evs[i], ev[1])>> \o rest

\* cme_query.py 200-206
Fallback(sorted_evs, by_id, maxEv) == WithMetadata(TopSlice(sorted_evs, maxEv), by_id, 1)

SelectEvents(sorted_evs, by_id, prof, maxEv) ==
  LET filtered == FilterLoop(sorted_evs, by_id, prof, maxEv, 1, <<>>)
  IN IF filtered = <<>> THEN Fallback(sorted_evs, by_id, maxEv) ELSE filtered

\* --------------------------------------------------- context, answer, result
FallbackUrl(cme_id) == [base |-> "https://mycertiq-demo.local/cme/", id |-> cme_id]

\* raw_url or f"https://mycertiq-demo.local/cme/{cme_id}"
ResolveUrl(ev, cme_id) == IF ev.url = None THEN FallbackUrl(cme_id) ELSE ev.url[1]

\* one context block per selected event, ranks counted from 1 (cme_query.py 219-251)
ContextBlocks(filtered) ==
  [k \in 1..Len(filtered) |->
     [cme_id |-> filtered[k].id,
      rank |-> k,
      title |-> OrEmpty(filtered[k].ev.title),
      credits |-> filtered[k].ev.credits,
      url |-> ResolveUrl(filtered[k].ev, filtered[k].id),
      snippets |-> filtered[k].meta.chunks]]

\* What the chat completion call does: it returns a message with a text, returns
\* a message without content, raises an API error, or times out.
LLMOutcomes == {"text", "no_content", "api_error", "timeout"}

\* (mutation of Caught: only the API's own error class is caught)
CaughtApiErrorOnly(outcome) == outcome = "api_error"

\* except Exception (cme_query.py 339): every failure of the call is caught
Caught(outcome) == outcome \in {"no_content", "api_error", "timeout"}

\* cme_query.py 320-351
AnswerText(outcome) ==
  IF outcome = "text" THEN "GENERATED_ANSWER" ELSE LLM_FALLBACK_ANSWER

RECURSIVE GCD(_, _)
GCD(a, b) == IF b = 0 THEN a ELSE GCD(b, a % b)

\* the float a / b of two non-negative integers, b > 0, as a reduced fraction
Quotient(a, b) == LET g == GCD(a, b) IN [num |-> a \div g, den |-> b \div g]
ZeroScore == [num |-> 0, den |-> 1]
OneScore == [num |-> 1, den |-> 1]

RECURSIVE ScoreSum(_, _)
ScoreSum(filtered, k) ==
  IF k > Len(filtered) THEN 0 ELSE filtered[k].meta.score + ScoreSum(filtered, k + 1)

\* (mutation of MaxScore: normalised by the total instead of the top score)
MaxScoreTotal(filtered) == IF filtered # <<>> THEN ScoreSum(filtered, 1) ELSE 1

\* cme_query.py 358
MaxScore(filtered) == IF filtered # <<>> THEN filtered[1].meta.score ELSE 1

\* (mutation of NormScore: the operands of the division swapped)
NormScoreInverted(raw_score, max_score) ==
  IF raw_score # 0 THEN Quotient(max_score, raw_score) ELSE ZeroScore

\* cme_query.py 368-369
NormScore(raw_score, max_score) ==
  IF max_score # 0 THEN Quotient(raw_score, max_score) ELSE ZeroScore

\* (mutation of RankOf: the recommendations are counted from 0)
RankOfZeroBased(k) == k - 1

RankOf(k) == k

\* cme_query.py 356-385; the title is the attribute's value, None included
BuildRecommendations(filtered) ==
  [k \in 1..Len(filtered) |->
     [cme_event_id |-> filtered[k].id,
      title |-> filtered[k].ev.title,
      provider |-> filtered[k].ev.provider_name,
      credit_hours |-> filtered[k].ev.credits,
      url |-> ResolveUrl(filtered[k].ev, filtered[k].id),
      score |-> NormScore(filtered[k].meta.score, MaxScore(filtered)),
      rank |-> RankOf(k),
      reason |-> REASON_TEXT]]

\* (mutation of ReturnValue: no list when the explanation failed)
ReturnValueWithheld(ans, filtered) ==
  [answer |-> ans,
   recommendations |->
     IF ans = LLM_FALLBACK_ANSWER THEN <<>> ELSE BuildRecommendations(filtered)]

\* return answer_text, recommendations (cme_query.py 393)
ReturnValue(ans, filtered) ==
  [answer |-> ans, recommendations |-> BuildRecommendations(filtered)]

\* CMERecommendation declares title: str, so a None title is refused by the
\* schema's validation (schemas/ask_cme.py 26)
ValidRecommendation(rec) == rec.title # None

\* ------------------------------------------------------------ HTTP boundary
OkResponse(q, ans, recs) ==
  [status |-> 200, question |-> q, answer |-> ans, recommendations |-> recs,
   detail |-> None]

ErrorResponse(exc) ==
  [status |-> 500, question |-> None, answer |-> "", recommendations |-> <<>>,
   detail |-> Some([prefix |-> "Error while processing CME question: ", exc |-> exc])]

NoResponse ==
  [status |-> 0, question |-> None, answer |-> "", recommendations |-> <<>>,
   detail |-> None]

\* (mutation of SearchOk: any 2xx status accepted)
SearchOk2xx(status) == status \in 200..299

\* cme_query.py 69
SearchOk(status) == status = 200

\* (mutation of StrippedQuestion: the question is not stripped)
UnstrippedQuestion(req) == req.question

\* cme_query.py 46
StrippedQuestion(req) == Strip(req.question)

VectorSearchError(status) == [type |-> "RuntimeError", msg |-> "Vector search failed", status |-> status]
ValidationError == [type |-> "ValidationError", msg |-> "title", status |-> 0]

\* ------------------------------------------------------------------- state
VARIABLES
  request,          \* request[r]: the AskCMERequest payload of execution r
  db,               \* the relational store (read by the pipeline)
  index,            \* what /vector/search answers for the question, best first
  max_events,       \* the max_events argument of run_cme_query
  schedule,         \* how the client sends the request: "once" or "repeat"
  pc,               \* pc[r]: the stage execution r is at
  question,         \* request.question.strip()
  search_status,    \* resp.status_code (0 before the search answered)
  chunks,           \* resp.json()
  profile,          \* the effective profile, None before it is built
  sorted_events,    \* cme_map.items() sorted by score
  events_by_id,     \* the loaded cme_event rows by id
  filtered_events,  \* the selected (id, meta, ev) triples
  context_blocks,   \* the blocks rendered for the language model
  llm_outcome,      \* what the language-model call did ("" before it)
  answer_text,      \* the answer the pipeline holds after the call
  result,           \* what run_cme_query returned: None or <<[answer, recommendations]>>
  response,         \* what ask_cme sent back
  calls,            \* calls[r]: how often each collaborator was called
  knowledge_chunk,  \* table knowledge_chunk: the source_type of the row of each id
  embedding_store,  \* the rows of table embedding_store, in insertion order
  job,              \* where regenerate_all_embeddings stands
  total_chunks,     \* its local total_chunks
  offset,           \* its local offset
  inserted,         \* its local inserted
  batch             \* its local batch

vars == <<request, db, index, max_events, schedule, pc, question, search_status,
          chunks, profile,
          sorted_events, events_by_id, filtered_events, context_blocks,
          llm_outcome, answer_text, result, response, calls,
          knowledge_chunk, embedding_store, job, total_chunks, offset, inserted, batch>>

embedding_job ==
  <<knowledge_chunk, embedding_store, job, total_chunks, offset, inserted, batch>>

inputs == <<request, db, index, max_events, schedule>>

locals == <<question, search_status, chunks, profile, sorted_events, events_by_id,
            filtered_events, context_blocks, llm_outcome, answer_text>>

Terminal == {"EMPTY_ANSWER", "NO_MATCH_ANSWER", "NO_ELIGIBLE_ANSWER", "RESPONSE", "FAILED"}

\* ------------------------------------------------------------------ inputs
SearchStatuses == {200, 204, 503}

Questions == {<<>>, <<" ", "\t">>, <<" ", "cardiology", " ">>}

ProviderUrl(e) == [base |-> "https://provider.example/cme/", id |-> e]

\* cme_event rows: title is NOT NULL (models/cme_event.py 11); the other
\* columns are nullable
RichRow(e) ==
  [id |-> e, title |-> Some(<<"Title">>), credits |-> Some(3),
   format |-> Some(<<"Online", " ">>), url |-> Some(ProviderUrl(e)),
   provider_name |-> Some("Provider"), credit_type |-> Some(<<"AMA">>)]

BareRow(e) ==
  [id |-> e, title |-> Some(<<"Title">>), credits |-> None,
   format |-> None, url |-> None,
   provider_name |-> None, credit_type |-> None]

EventRows(e) == {None, Some(RichRow(e)), Some(BareRow(e))}

EventTables == {t \in [Entities -> UNION {EventRows(e) : e \in Entities}] :
                  \A e \in Entities : t[e] \in EventRows(e)}

StoredPhysician == Some([specialty_name |-> Some(<<"Cardiology">>)])
StoredPreference ==
  Some([travel_pref |-> Some(<<"No_Travel">>), modality_pref |-> Some(<<"LIVE">>)])

Stores ==
  {[physician |-> StoredPhysician, pref |-> StoredPreference,
    completed |-> c, events |-> t] : c \in SUBSET Entities, t \in EventTables}

Requests ==
  {[question |-> q, physician_id |-> p, specialty |-> None, state |-> None,
    preferred_format |-> f, min_credits |-> m, credit_type |-> None,
    travel_ok |-> None] :
     q \in Questions, p \in {None, Some(KnownPid)},
     f \in {None, Some(<<" ", "Online">>)}, m \in {None, Some(2)}}

\* a chunk of the search result: its id is its place in the result
Chunk(i, owner) == [id |-> i, source_id |-> owner, chunk_text |-> <<"text">>]

ChunkLists ==
  UNION {{[i \in 1..n |-> Chunk(i, owners[i])] : owners \in [1..n -> Owners]} :
           n \in 0..MaxChunks}

\* the re-embedding script is not run while requests are served
NoJob ==
  /\ knowledge_chunk = <<>>
  /\ embedding_store = <<>>
  /\ job = "NOT_RUN"
  /\ total_chunks = 0
  /\ offset = 0
  /\ inserted = 0
  /\ batch = <<>>

NoCalls == [search |-> 0, profile |-> 0, metadata |-> 0, llm |-> 0]

InitLocals ==
  /\ pc = [r \in Runs |-> "RECEIVED"]
  /\ question = [r \in Runs |-> <<>>]
  /\ search_status = [r \in Runs |-> 0]
  /\ chunks = [r \in Runs |-> <<>>]
  /\ profile = [r \in Runs |-> None]
  /\ sorted_events = [r \in Runs |-> <<>>]
  /\ events_by_id = [r \in Runs |-> [e \in Entities |-> None]]
  /\ filtered_events = [r \in Runs |-> <<>>]
  /\ context_blocks = [r \in Runs |-> <<>>]
  /\ llm_outcome = [r \in Runs |-> ""]
  /\ answer_text = [r \in Runs |-> ""]
  /\ result = [r \in Runs |-> None]
  /\ response = [r \in Runs |-> NoResponse]
  /\ calls = [r \in Runs |-> NoCalls]

\* One request, answered once.  (request[2] is the same payload, never sent.)
Init ==
  /\ \E req \in Requests : request = [r \in Runs |-> req]
  /\ db \in Stores
  /\ index \in ChunkLists
  /\ max_events \in 1..MaxEventsArg
  /\ schedule = "once"
  /\ InitLocals
  /\ NoJob

\* The identical request is sent a second time once the first was answered,
\* against the unchanged store and index.
RepeatRequests ==
  {req \in Requests : /\ Strip(req.question) # <<>>
                      /\ req.physician_id = Some(KnownPid)
                      /\ req.preferred_format = None}

RepeatStores == {d \in Stores : d.completed \in {{}, {1}}}

InitRepeat ==
  /\ \E req \in RepeatRequests : request = [r \in Runs |-> req]
  /\ db \in RepeatStores
  /\ index \in ChunkLists
  /\ max_events \in 1..MaxEventsArg
  /\ schedule = "repeat"
  /\ InitLocals
  /\ NoJob

\* The profile resolver on its own: every combination of request overrides and
\* stored rows, for no physician id, the stored physician and an unknown one.
ProfileRequests ==
  {[question |-> <<"cardiology">>, physician_id |-> p, specialty |-> sp,
    state |-> st, preferred_format |-> f, min_credits |-> m, credit_type |-> ct,
    travel_ok |-> tr] :
     p \in {None, Some(KnownPid), Some(UnknownPid)},
     sp \in {None, Some(<<>>), Some(<<"Oncology">>)},
     st \in {None, Some(<<"MA">>)},
     f \in {None, Some(<<>>), Some(<<" ">>), Some(<<" ", "Online">>)},
     m \in {None, Some(2)},
     ct \in {None, Some(<<"AMA">>)},
     tr \in {None, Some(TRUE), Some(FALSE)}}

PhysicianRows ==
  {None, Some([specialty_name |-> None]), Some([specialty_name |-> Some(<<"Cardiology">>)])}

PreferenceRows ==
  {None} \cup
  {Some([travel_pref |-> t, modality_pref |-> mo]) :
     t \in {None, Some(<<"No_Travel">>), Some(<<"LOCAL_ONLY">>), Some(<<"anywhere">>)},
     mo \in {None, Some(<<"LIVE">>)}}

ProfileStores ==
  {[physician |-> ph, pref |-> pr, completed |-> c, events |-> [e \in Entities |-> None]] :
     ph \in PhysicianRows, pr \in PreferenceRows, c \in {{}, {1}}}

InitProfile ==
  /\ \E req \in ProfileRequests : request = [r \in Runs |-> req]
  /\ db \in ProfileStores
  /\ index = <<>>
  /\ max_events = 1
  /\ schedule = "profile"
  /\ InitLocals
  /\ NoJob

\* A catalog in which a cme_event row may lack its title.  The ORM declares the
\* column NOT NULL (models/cme_event.py 12), but the table is created and
\* loaded outside the pipeline, and run_cme_query itself provides for an
\* absent title (cme_query.py 226 and 361).
UntitledRow(e) ==
  [id |-> e, title |-> None, credits |-> None,
   format |-> None, url |-> None,
   provider_name |-> None, credit_type |-> None]

TitleRows(e) == EventRows(e) \cup {Some(UntitledRow(e))}

TitleTables == {t \in [Entities -> UNION {TitleRows(e) : e \in Entities}] :
                  \A e \in Entities : t[e] \in TitleRows(e)}

TitleStores ==
  {[physician |-> StoredPhysician, pref |-> StoredPreference,
    completed |-> c, events |-> t] : c \in {{}, {1}}, t \in TitleTables}

TitleRequests ==
  {[question |-> <<"cardiology">>, physician_id |-> p, specialty |-> None,
    state |-> None, preferred_format |-> None, min_credits |-> None,
    credit_type |-> None, travel_ok |-> None] :
     p \in {None, Some(KnownPid), Some(UnknownPid)}}

InitTitles ==
  /\ \E req \in TitleRequests : request = [r \in Runs |-> req]
  /\ db \in TitleStores
  /\ index \in ChunkLists
  /\ max_events \in 1..MaxEventsArg
  /\ schedule = "once"
  /\ InitLocals
  /\ NoJob

\* One request, answered once, followed to its end.
FairRequests ==
  {req \in Requests : req.preferred_format = None /\ req.min_credits = None}

FairStores == {d \in Stores : d.completed = {1}}

InitFair ==
  /\ \E req \in FairRequests : request = [r \in Runs |-> req]
  /\ db \in FairStores
  /\ index \in ChunkLists
  /\ max_events \in 1..MaxEventsArg
  /\ schedule = "once"
  /\ InitLocals
  /\ NoJob

\* The filter rules on one event: the search returns a chunk of event 1 and
\* then a chunk of event 2; event 1's row takes every format and credit count,
\* event 2's row has no format and more credits than any request asks for.
RuleFormats ==
  {None, Some(<<>>), Some(<<" ", "\t">>), Some(<<"Online">>),
   Some(<<"\t", "Online", " ">>), Some(<<"online">>), Some(<<"LIVE">>),
   Some(<<"hybrid">>)}

RuleCredits == {None, Some(0), Some(1), Some(2), Some(3)}

RuleRow(f, c) ==
  [id |-> 1, title |-> Some(<<"Title">>), credits |-> c, format |-> f,
   url |-> None, provider_name |-> None, credit_type |-> None]

PlainRow ==
  [id |-> 2, title |-> Some(<<"Title">>), credits |-> Some(9), format |-> None,
   url |-> None, provider_name |-> None, credit_type |-> None]

RuleStores ==
  {[physician |-> StoredPhysician, pref |-> StoredPreference, completed |-> {},
    events |-> [e \in Entities |->
                  IF e = 1 THEN Some(RuleRow(f, c))
                  ELSE IF e = 2 THEN Some(PlainRow) ELSE None]] :
     f \in RuleFormats, c \in RuleCredits}

RuleRequests ==
  {[question |-> <<"cardiology">>, physician_id |-> p, specialty |-> None,
    state |-> None, preferred_format |-> f, min_credits |-> m,
    credit_type |-> None, travel_ok |-> None] :
     p \in {None, Some(KnownPid)},
     f \in {None, Some(<<>>), Some(<<" ">>), Some(<<" ", "Online">>),
            Some(<<"online">>), Some(<<"LIVE", " ">>)},
     m \in {None, Some(-1), Some(0), Some(2)}}

RuleIndex == <<Chunk(1, Some(1)), Chunk(2, Some(2))>>

InitRules ==
  /\ \E req \in RuleRequests : request = [r \in Runs |-> req]
  /\ db \in RuleStores
  /\ index = RuleIndex
  /\ max_events = 2
  /\ schedule = "once"
  /\ InitLocals
  /\ NoJob

\* Two requests in flight at once: the same question, asked with different
\* personalisation fields, against one store whose catalog holds at most the
\* events 1 and 2.
PairRequests ==
  {[question |-> <<"cardiology">>, physician_id |-> pm[1], specialty |-> None,
    state |-> None, preferred_format |-> None, min_credits |-> pm[2],
    credit_type |-> ct, travel_ok |-> None] :
     pm \in {<<None, None>>, <<Some(KnownPid), None>>},
     ct \in {None, Some(<<" ", "AMA">>), Some(<<"MOC">>)}}

PairStores ==
  {d \in Stores : /\ d.completed = {1}
                  /\ \A e \in Entities : e > 2 => d.events[e] = None}

PairIndex == <<Chunk(1, Some(1)), Chunk(2, Some(2)), Chunk(3, Some(1))>>

InitPair ==
  /\ request \in [Runs -> PairRequests]
  /\ db \in PairStores
  /\ index = PairIndex
  /\ max_events \in 1..MaxEventsArg
  /\ schedule = "interleave"
  /\ InitLocals
  /\ NoJob

\* ----------------------------------------------------------------- actions
\* whether execution r may take a step: the second execution exists only when
\* the request is repeated, and starts when the first has been answered
Turn(r) ==
  \/ schedule \in {"once", "repeat"} /\ r = 1
  \/ schedule = "repeat" /\ pc[1] \in Terminal
  \/ schedule = "interleave"

\* run_cme_query returns (ans, recs) and ask_cme wraps it (ask_cme.py 32-36)
Return(r, stage, ans, recs) ==
  /\ pc' = [pc EXCEPT ![r] = stage]
  /\ result' = [result EXCEPT ![r] = Some([answer |-> ans, recommendations |-> recs])]
  /\ response' = [response EXCEPT ![r] = OkResponse(request[r].question, ans, recs)]

\* an exception that leaves the language-model call uncaught
LLMError(outcome) == [type |-> "Exception", msg |-> outcome, status |-> 0]

\* run_cme_query raises exc and ask_cme turns it into a 500 (ask_cme.py 26-30)
Raise(r, exc) ==
  /\ pc' = [pc EXCEPT ![r] = "FAILED"]
  /\ result' = result
  /\ response' = [response EXCEPT ![r] = ErrorResponse(exc)]

Goto(r, stage) ==
  /\ pc' = [pc EXCEPT ![r] = stage]
  /\ UNCHANGED <<result, response>>

\* (mutation of NoChunks: the empty search result is not noticed)
NoChunksIgnored(chs) == FALSE

\* "if not chunks" (cme_query.py 82)
NoChunks(chs) == chs = <<>>

\* (mutation of NoCandidates: the empty selection is not noticed)
NoCandidatesIgnored(selected) == FALSE

\* "if not filtered_events" after the fallback (cme_query.py 208)
NoCandidates(selected) == selected = <<>>

\* cme_query.py 46-51
CheckQuestion(r) ==
  /\ Turn(r)
  /\ pc[r] = "RECEIVED"
  /\ question' = [question EXCEPT ![r] = StrippedQuestion(request[r])]
  /\ IF StrippedQuestion(request[r]) = <<>>
     THEN Return(r, "EMPTY_ANSWER", EMPTY_ANSWER, <<>>)
     ELSE Goto(r, "VECTOR_SEARCH")
  /\ UNCHANGED <<inputs, embedding_job, search_status, chunks, profile, sorted_events, events_by_id,
                 filtered_events, context_blocks, llm_outcome, answer_text, calls>>

\* cme_query.py 56-86: one POST to /vector/search
VectorSearch(r) ==
  /\ Turn(r)
  /\ pc[r] = "VECTOR_SEARCH"
  /\ calls' = [calls EXCEPT ![r].search = @ + 1]
  /\ \E status \in SearchStatuses :
       /\ search_status' = [search_status EXCEPT ![r] = status]
       /\ IF ~SearchOk(status)
          THEN /\ Raise(r, VectorSearchError(status))
               /\ chunks' = chunks
          ELSE /\ chunks' = [chunks EXCEPT ![r] = index]
               /\ IF NoChunks(index)
                  THEN Return(r, "NO_MATCH_ANSWER", NO_MATCH_ANSWER, <<>>)
                  ELSE Goto(r, "PROFILE_BUILD")
  /\ UNCHANGED <<inputs, embedding_job, question, profile, sorted_events, events_by_id,
                 filtered_events, context_blocks, llm_outcome, answer_text>>

\* (mutation of ProfileBuild: the profile is kept in one module-level variable
\* that every request overwrites)
ProfileBuildShared(r) ==
  /\ Turn(r)
  /\ pc[r] = "PROFILE_BUILD"
  /\ calls' = [calls EXCEPT ![r].profile = @ + 1]
  /\ profile' = [q \in Runs |-> Some(build_effective_physician_profile(db, request[r]))]
  /\ Goto(r, "AGGREGATE")
  /\ UNCHANGED <<inputs, embedding_job, question, search_status, chunks, sorted_events, events_by_id,
                 filtered_events, context_blocks, llm_outcome, answer_text>>

\* cme_query.py 91-100
ProfileBuild(r) ==
  /\ Turn(r)
  /\ pc[r] = "PROFILE_BUILD"
  /\ calls' = [calls EXCEPT ![r].profile = @ + 1]
  /\ profile' = [profile EXCEPT ![r] = Some(build_effective_physician_profile(db, request[r]))]
  /\ Goto(r, "AGGREGATE")
  /\ UNCHANGED <<inputs, embedding_job, question, search_status, chunks, sorted_events, events_by_id,
                 filtered_events, context_blocks, llm_outcome, answer_text>>

\* cme_query.py 111-135
Aggregate(r) ==
  /\ Turn(r)
  /\ pc[r] = "AGGREGATE"
  /\ sorted_events' = [sorted_events EXCEPT ![r] = SortEvents(GroupChunks(chunks[r], 0, <<>>))]
  /\ Goto(r, "METADATA_LOAD")
  /\ UNCHANGED <<inputs, embedding_job, question, search_status, chunks, profile, events_by_id,
                 filtered_events, context_blocks, llm_outcome, answer_text, calls>>

\* cme_query.py 140-145: the rows whose id is a candidate id
LoadEvents(d, candidate_ids) ==
  [e \in Entities |-> IF e \in candidate_ids THEN d.events[e] ELSE None]

MetadataLoad(r) ==
  /\ Turn(r)
  /\ pc[r] = "METADATA_LOAD"
  /\ calls' = [calls EXCEPT ![r].metadata = @ + 1]
  /\ events_by_id' = [events_by_id EXCEPT ![r] = LoadEvents(db, CandidateIds(sorted_events[r]))]
  /\ Goto(r, "FILTER")
  /\ UNCHANGED <<inputs, embedding_job, question, search_status, chunks, profile, sorted_events,
                 filtered_events, context_blocks, llm_outcome, answer_text>>

\* cme_query.py 157-212
Filter(r) ==
  /\ Turn(r)
  /\ pc[r] = "FILTER"
  /\ LET selected == SelectEvents(sorted_events[r], events_by_id[r], profile[r][1], max_events)
     IN /\ filtered_events' = [filtered_events EXCEPT ![r] = selected]
        /\ IF NoCandidates(selected)
           THEN Return(r, "NO_ELIGIBLE_ANSWER", NO_ELIGIBLE_ANSWER, <<>>)
           ELSE Goto(r, "CONTEXT_BUILD")
  /\ UNCHANGED <<inputs, embedding_job, question, search_status, chunks, profile, sorted_events, events_by_id,
                 context_blocks, llm_outcome, answer_text, calls>>

\* cme_query.py 217-314
ContextBuild(r) ==
  /\ Turn(r)
  /\ pc[r] = "CONTEXT_BUILD"
  /\ context_blocks' = [context_blocks EXCEPT ![r] = ContextBlocks(filtered_events[r])]
  /\ Goto(r, "LLM_CALL")
  /\ UNCHANGED <<inputs, embedding_job, question, search_status, chunks, profile, sorted_events, events_by_id,
                 filtered_events, llm_outcome, answer_text, calls>>

\* cme_query.py 319-351: every exception of the call is caught
LLMCall(r) ==
  /\ Turn(r)
  /\ pc[r] = "LLM_CALL"
  /\ calls' = [calls EXCEPT ![r].llm = @ + 1]
  /\ \E outcome \in LLMOutcomes :
       /\ llm_outcome' = [llm_outcome EXCEPT ![r] = outcome]
       /\ IF outcome = "text" \/ Caught(outcome)
          THEN /\ answer_text' = [answer_text EXCEPT ![r] = AnswerText(outcome)]
               /\ Goto(r, "RECOMMENDATION_BUILD")
          ELSE /\ answer_text' = answer_text
               /\ Raise(r, LLMError(outcome))
  /\ UNCHANGED <<inputs, embedding_job, question, search_status, chunks, profile, sorted_events, events_by_id,
                 filtered_events, context_blocks>>

\* cme_query.py 356-393
RecommendationBuild(r) ==
  /\ Turn(r)
  /\ pc[r] = "RECOMMENDATION_BUILD"
  /\ LET value == ReturnValue(answer_text[r], filtered_events[r])
         recs == value.recommendations
     IN IF \A k \in 1..Len(recs) : ValidRecommendation(recs[k])
        THEN Return(r, "RESPONSE", value.answer, recs)
        ELSE Raise(r, ValidationError)
  /\ UNCHANGED <<inputs, embedding_job, locals, calls>>

Next ==
  \/ \E r \in Runs : CheckQuestion(r)
  \/ \E r \in Runs : VectorSearch(r)
  \/ \E r \in Runs : ProfileBuild(r)
  \/ \E r \in Runs : Aggregate(r)
  \/ \E r \in Runs : MetadataLoad(r)
  \/ \E r \in Runs : Filter(r)
  \/ \E r \in Runs : ContextBuild(r)
  \/ \E r \in Runs : LLMCall(r)
  \/ \E r \in Runs : RecommendationBuild(r)

Spec == Init /\ [][Next]_vars

\* a call of build_effective_physician_profile(db, request) by itself
ResolveProfile ==
  /\ schedule = "profile"
  /\ pc[1] = "RECEIVED"
  /\ profile' = [profile EXCEPT ![1] = Some(build_effective_physician_profile(db, request[1]))]
  /\ calls' = [calls EXCEPT ![1].profile = @ + 1]
  /\ pc' = [pc EXCEPT ![1] = "PROFILE_RETURNED"]
  /\ UNCHANGED <<inputs, embedding_job, question, search_status, chunks, sorted_events, events_by_id,
                 filtered_events, context_blocks, llm_outcome, answer_text,
                 result, response>>

NextProfile == ResolveProfile

SpecProfile == InitProfile /\ [][NextProfile]_vars

SpecRepeat == InitRepeat /\ [][Next]_vars

\* run_cme_query runs to its end: every await in it returns or raises (the
\* search request has timeout=30.0, cme_query.py 58; the chat completion call
\* returns or raises into the except clause), and nothing else blocks
SpecFair == InitFair /\ [][Next]_vars /\ WF_vars(Next)

SpecTitles == InitTitles /\ [][Next]_vars

SpecPair == InitPair /\ [][Next]_vars

SpecRules == InitRules /\ [][Next]_vars

\* ------------------------------------------- scripts/generate_embeddings_openai
\* BATCH_SIZE = 64 (generate_embeddings_openai.py 23)
BATCH_SIZE == 64

CME_EVENT == "cme_event"
OTHER_SOURCE == "other_source"

ChunkIds == 1..MaxRows

Smaller(a, b) == IF a <= b THEN a ELSE b

\* the row of table knowledge_chunk with primary key i
ChunkRow(table, i) == [id |-> i, source_type |-> table[i]]

\* the rows of a table of knowledge chunks whose source_type is one of
\* `types`, ORDER BY id
RowsById(table, types) ==
  LET InTable(i) == i \in DOMAIN table /\ table[i] \in types
      ids == SelectSeq([i \in ChunkIds |-> i], InTable)
  IN [k \in 1..Len(ids) |-> ChunkRow(table, ids[k])]

IsCmeEvent(row) == row.source_type = CME_EVENT

\* SELECT ... WHERE source_type = 'cme_event' ORDER BY id LIMIT :limit OFFSET :offset
\* (generate_embeddings_openai.py 26-43)
fetch_cme_chunks(table, limit, off) ==
  LET ordered == RowsById(table, {CME_EVENT})
  IN IF off >= Len(ordered) THEN <<>>
     ELSE SubSeq(ordered, off + 1, Smaller(off + limit, Len(ordered)))

\* SELECT COUNT(*) ... WHERE source_type = 'cme_event' (118-123)
CountCmeChunks(table) ==
  Cardinality({i \in DOMAIN table : IsCmeEvent(ChunkRow(table, i))})

\* DELETE FROM embedding_store WHERE source_type = 'cme_event' (46-55)
delete_old_embeddings(store) ==
  LET Kept(row) == ~IsCmeEvent(row) IN SelectSeq(store, Kept)

\* the row inserted for a chunk (92-100): chunk_id is str(row["id"])
EmbeddingRow(row) ==
  [knowledge_chunk_id |-> row.id, source_type |-> row.source_type,
   chunk_id |-> ToString(row.id)]

\* response.data of an accepted call: one embedding per input text (142-146)
EmbeddingsFor(texts) == [k \in 1..Len(texts) |-> "embedding"]

\* one INSERT per pair of zip(batch_rows, embeddings) (89-104)
insert_embeddings(store, batch_rows, embeddings) ==
  store \o [k \in 1..Smaller(Len(batch_rows), Len(embeddings)) |->
             EmbeddingRow(batch_rows[k])]

\* (mutation of NextOffset: the window moves on by one row less than it holds)
NextOffsetOverlapping(off) == off + BATCH_SIZE - 1

\* offset += BATCH_SIZE (154)
NextOffset(off) == off + BATCH_SIZE

\* what client.embeddings.create does: it answers, or it raises
EmbeddingOutcomes == {"ok", "error"}

\* Tables of knowledge chunks with ids 1..m: every row a cme_event chunk
\* (every = 1), or every row whose id is a multiple of `every` of another
\* source type.
ChunkTable(m, every) ==
  [i \in 1..m |-> IF every > 1 /\ i % every = 0 THEN OTHER_SOURCE ELSE CME_EVENT]

ChunkTables == {ChunkTable(m, every) : m \in 0..MaxRows, every \in 1..3}

\* what embedding_store holds before the script runs: nothing; the rows of an
\* earlier full run over all source types; or those rows and, after them, a
\* cme_event embedding of a chunk that no longer exists and a second
\* embedding of chunk 1
SourceTypes == {CME_EVENT, OTHER_SOURCE}

PreviousRun(table) ==
  LET rows == RowsById(table, SourceTypes)
  IN [k \in 1..Len(rows) |-> EmbeddingRow(rows[k])]

Leftovers ==
  <<EmbeddingRow([id |-> MaxRows + 1, source_type |-> CME_EVENT]),
    EmbeddingRow([id |-> 1, source_type |-> CME_EVENT])>>

OldStores(table) == {<<>>, PreviousRun(table), PreviousRun(table) \o Leftovers}

\* The script is run on its own, no request being served.
InitEmbed ==
  /\ request = [r \in Runs |-> CHOOSE req \in Requests : TRUE]
  /\ db = CHOOSE d \in Stores : TRUE
  /\ index = <<>>
  /\ max_events = 1
  /\ schedule = "script"
  /\ InitLocals
  /\ knowledge_chunk \in ChunkTables
  /\ embedding_store \in OldStores(knowledge_chunk)
  /\ job = "COUNT"
  /\ total_chunks = 0
  /\ offset = 0
  /\ inserted = 0
  /\ batch = <<>>

\* generate_embeddings_openai.py 117-124
CountChunks ==
  /\ job = "COUNT"
  /\ total_chunks' = CountCmeChunks(knowledge_chunk)
  /\ job' = "DELETE"
  /\ UNCHANGED <<inputs, locals, pc, result, response, calls,
                 knowledge_chunk, embedding_store, offset, inserted, batch>>

\* generate_embeddings_openai.py 126-131
DeleteOld ==
  /\ job = "DELETE"
  /\ embedding_store' = delete_old_embeddings(embedding_store)
  /\ offset' = 0
  /\ inserted' = 0
  /\ job' = "LOOP"
  /\ UNCHANGED <<inputs, locals, pc, result, response, calls,
                 knowledge_chunk, total_chunks, batch>>

\* generate_embeddings_openai.py 133-136: the loop test, the fetch, and the
\* break on an empty batch
FetchBatch ==
  /\ job = "LOOP"
  /\ offset < total_chunks
  /\ batch' = fetch_cme_chunks(knowledge_chunk, BATCH_SIZE, offset)
  /\ job' = IF batch' = <<>> THEN "DONE" ELSE "EMBED"
  /\ UNCHANGED <<inputs, locals, pc, result, response, calls,
                 knowledge_chunk, embedding_store, total_chunks, offset, inserted>>

\* generate_embeddings_openai.py 138-154: an exception of the API call leaves
\* the function before anything of the batch is inserted
EmbedBatch ==
  /\ job = "EMBED"
  /\ \E outcome \in EmbeddingOutcomes :
       IF outcome = "ok"
       THEN /\ embedding_store' =
                 insert_embeddings(embedding_store, batch,
                                   EmbeddingsFor([k \in 1..Len(batch) |-> batch[k].id]))
            /\ inserted' = inserted + Len(batch)
            /\ offset' = NextOffset(offset)
            /\ job' = "LOOP"
       ELSE /\ job' = "FAILED"
            /\ UNCHANGED <<embedding_store, inserted, offset>>
  /\ UNCHANGED <<inputs, locals, pc, result, response, calls,
                 knowledge_chunk, total_chunks, batch>>

\* generate_embeddings_openai.py 133, 156-157: the loop test fails
Finish ==
  /\ job = "LOOP"
  /\ ~(offset < total_chunks)
  /\ job' = "DONE"
  /\ UNCHANGED <<inputs, locals, pc, result, response, calls,
                 knowledge_chunk, embedding_store, total_chunks, offset, inserted, batch>>

NextEmbed ==
  \/ CountChunks
  \/ DeleteOld
  \/ FetchBatch
  \/ EmbedBatch
  \/ Finish

\* The script is one thread; each of its steps is a statement on the session
\* or a call of the client, which answers or raises.
SpecEmbed == InitEmbed /\ [][NextEmbed]_vars /\ WF_vars(NextEmbed)

\* ===================================================================== claims
Recs(r) == result[r][1].recommendations
RecIds(r) == [k \in 1..Len(Recs(r)) |-> Recs(r)[k].cme_event_id]
OwnersOf(chs) == [i \in 1..Len(chs) |-> chs[i].source_id]
IsBlank(q) == \A i \in 1..Len(q) : q[i] \in Whitespace
Aggregated ==
  {"METADATA_LOAD", "FILTER", "NO_ELIGIBLE_ANSWER", "CONTEXT_BUILD", "LLM_CALL",
   "RECOMMENDATION_BUILD", "RESPONSE"}

\* the candidates, in score order, whose cme_event row exists
HasRow(entry) == db.events[entry.id] # None
CandidatesWithRow(r) == SelectSeq(sorted_events[r], HasRow)

\* the candidates with a row that pass the filter predicate of execution r
EligibleCandidates(r) ==
  {i \in 1..Len(sorted_events[r]) :
     /\ HasRow(sorted_events[r][i])
     /\ _eligible(db.events[sorted_events[r][i].id][1], profile[r][1])}

\* C1: whatever run_cme_query returns, the recommendation list has at most
\* max_events items and the item at position k (from 1) has rank k, so the
\* ranks are 1..length; the endpoint passes the list on unchanged.
C1_LengthAndRanks ==
  \A r \in Runs :
    result[r] # None =>
      /\ Len(Recs(r)) <= max_events
      /\ \A k \in 1..Len(Recs(r)) : Recs(r)[k].rank = k
      /\ response[r].recommendations = Recs(r)

\* the cap acted: more candidates pass the filter than max_events allows
C1_Witness ==
  /\ pc[1] = "RESPONSE"
  /\ Len(Recs(1)) = max_events
  /\ Cardinality(EligibleCandidates(1)) > max_events

\* C2 (as claimed): with a physician id whose stored completed set is C, no id
\* of C is among the returned recommendations, the fallback path included.
C2_CompletedNeverRecommended ==
  \A r \in Runs :
    (result[r] # None /\ HasPid(request[r])) =>
      \A k \in 1..Len(Recs(r)) :
        Recs(r)[k].cme_event_id \notin CompletedRows(db, request[r].physician_id[1])

\* C3: when the language-model call fails (error, time-out, empty message)
\* the request does not fail; it is answered with the fixed fallback text and
\* with the recommendation list an execution with a successful call returns.
C3_LLMFailureKeepsRecommendations ==
  \A r \in Runs :
    llm_outcome[r] \notin {"", "text"} =>
      /\ pc[r] \in {"RECOMMENDATION_BUILD", "RESPONSE"}
      /\ pc[r] = "RESPONSE" =>
           /\ result[r] # None
           /\ result[r][1].answer = LLM_FALLBACK_ANSWER
           /\ response[r].status = 200
           /\ response[r].answer = LLM_FALLBACK_ANSWER
           /\ response[r].recommendations = Recs(r)
           /\ Recs(r) # <<>>
           /\ \A q \in Runs :
                (pc[q] = "RESPONSE" /\ llm_outcome[q] = "text") => Recs(q) = Recs(r)

C3_Witness ==
  /\ pc[1] = "RESPONSE" /\ llm_outcome[1] = "text"
  /\ pc[2] = "RESPONSE" /\ llm_outcome[2] = "timeout"
  /\ Len(Recs(2)) >= 2

\* C4: a question that is empty or only whitespace is answered with the fixed
\* guidance text and no recommendation, and in that execution neither the
\* search, the profile store, the metadata store nor the language model is
\* ever called.
C4_BlankQuestionShortCircuit ==
  \A r \in Runs :
    IsBlank(request[r].question) =>
      /\ calls[r] = NoCalls
      /\ pc[r] \in {"RECEIVED", "EMPTY_ANSWER"}
      /\ pc[r] = "EMPTY_ANSWER" =>
           /\ result[r] = Some([answer |-> EMPTY_ANSWER, recommendations |-> <<>>])
           /\ response[r].status = 200
           /\ response[r].answer = EMPTY_ANSWER
           /\ response[r].recommendations = <<>>

C4_Witness ==
  /\ pc[1] = "EMPTY_ANSWER"
  /\ request[1].question # <<>>
  /\ IsBlank(request[1].question)

\* the first n items of a sequence
Prefix(seq, n) == SubSeq(seq, 1, IF n < Len(seq) THEN n ELSE Len(seq))

IdsOf(entries) == [k \in 1..Len(entries) |-> entries[k].id]

\* every candidate that has a row has fewer credits than min_credits asks for
AllBelowMinCredits(r) ==
  /\ profile[r][1].min_credits # None
  /\ CandidatesWithRow(r) # <<>>
  /\ \A k \in 1..Len(CandidatesWithRow(r)) :
       CreditsOf(db.events[CandidatesWithRow(r)[k].id][1]) < profile[r][1].min_credits[1]

\* C5 (as claimed): if min_credits is set and every candidate that has
\* metadata has fewer credits, the recommendation list is not empty: it is the
\* first max_events of those candidates in descending score order.
C5_MinCreditsFallbackNotEmpty ==
  \A r \in Runs :
    (result[r] # None /\ pc[r] \in {"NO_ELIGIBLE_ANSWER", "RESPONSE"}
       /\ AllBelowMinCredits(r)) =>
      /\ Recs(r) # <<>>
      /\ RecIds(r) = Prefix(IdsOf(CandidatesWithRow(r)), max_events)

\* C6: a non-empty recommendation list has a rank-1 item whose normalized
\* score is exactly 1.0, on the filtered and on the fallback path.
C6_TopScoreIsOne ==
  \A r \in Runs :
    (result[r] # None /\ Recs(r) # <<>>) => Recs(r)[1].score = OneScore

\* a list of two whose second item scores less, reached through the fallback
C6_Witness ==
  /\ pc[1] = "RESPONSE"
  /\ Len(Recs(1)) >= 2
  /\ Recs(1)[2].score # OneScore
  /\ EligibleCandidates(1) = {}

\* sum of (N - i) over the 0-based positions i, from i on, of the chunks of
\* entity e in a list of N chunks
RECURSIVE RankSum(_, _, _)
RankSum(chs, e, i) ==
  IF i >= Len(chs) THEN 0
  ELSE (IF chs[i + 1].source_id = Some(e) THEN Len(chs) - i ELSE 0) + RankSum(chs, e, i + 1)

\* C7: each entity's aggregate score is the sum of (N - i) over the 0-based
\* positions i of its chunks, and exactly the owning entities are candidates;
\* for owners [1, 2, 1] entity 1 scores 4, entity 2 scores 2, entity 1 first.
C7_AggregateScore ==
  \A r \in Runs :
    pc[r] \in Aggregated =>
      /\ \A k \in 1..Len(sorted_events[r]) :
           sorted_events[r][k].score = RankSum(chunks[r], sorted_events[r][k].id, 0)
      /\ CandidateIds(sorted_events[r]) =
           {e \in Entities : \E i \in 1..Len(chunks[r]) : chunks[r][i].source_id = Some(e)}
      /\ OwnersOf(chunks[r]) = <<Some(1), Some(2), Some(1)>> =>
           /\ IdsOf(sorted_events[r]) = <<1, 2>>
           /\ sorted_events[r][1].score = 4
           /\ sorted_events[r][2].score = 2

C7_Witness ==
  /\ pc[1] = "METADATA_LOAD"
  /\ OwnersOf(chunks[1]) = <<Some(1), Some(2), Some(1)>>

\* C8: two executions of the identical request that both got the chunk list
\* from the search return the same recommended ids in the same order,
\* whatever the language model did in either.
C8_SameOrderingOnRepeat ==
  (pc[1] \in Terminal /\ pc[2] \in Terminal
     /\ search_status[1] = 200 /\ search_status[2] = 200) =>
    /\ result[1] # None
    /\ result[2] # None
    /\ RecIds(1) = RecIds(2)

C8_Witness ==
  /\ pc[1] = "RESPONSE" /\ llm_outcome[1] = "api_error"
  /\ pc[2] = "RESPONSE" /\ llm_outcome[2] = "text"
  /\ Len(RecIds(1)) >= 2

\* C9 (as claimed): for specialty, state, preferred_format (normalized),
\* min_credits, credit_type and travel_ok, a value the request supplies is the
\* value of the effective profile, whatever the stored rows hold.
C9_RequestOverridesWin ==
  pc[1] = "PROFILE_RETURNED" =>
    LET p == profile[1][1]
        req == request[1]
    IN /\ Truthy(req.specialty) => p.specialty = req.specialty
       /\ Truthy(req.state) => p.state = req.state
       /\ Truthy(req.preferred_format) =>
            p.preferred_format = Some(Lower(Strip(req.preferred_format[1])))
       /\ req.min_credits # None => p.min_credits = req.min_credits
       /\ Truthy(req.credit_type) => p.credit_type = req.credit_type
       /\ req.travel_ok # None => p.travel_ok = req.travel_ok[1]

\* C10: when the search answers with a status other than 200 the request
\* fails with a 500 whose detail carries the exception, after exactly one
\* search call and no call to the profile store, the metadata store or the
\* language model, and nothing is returned.
C10_SearchFailureIsFatal ==
  \A r \in Runs :
    search_status[r] \notin {0, 200} =>
      /\ pc[r] = "FAILED"
      /\ result[r] = None
      /\ response[r].status = 500
      /\ response[r].recommendations = <<>>
      /\ response[r].detail # None
      /\ response[r].detail[1].exc = VectorSearchError(search_status[r])
      /\ calls[r] = [search |-> 1, profile |-> 0, metadata |-> 0, llm |-> 0]

C10_Witness ==
  /\ search_status[1] = 204
  /\ pc[1] = "FAILED"
  /\ response[1].status = 500

\* C11: each of the three short-circuit outcomes (blank question, search
\* returned no chunks, no candidate left after the fallback) returns its fixed
\* sentence with an empty recommendation list, is taken exactly in its own
\* case, and the language model has not been called in that execution.
C11_ShortCircuitsAreEmpty ==
  \A r \in Runs :
    /\ pc[r] \in {"EMPTY_ANSWER", "NO_MATCH_ANSWER", "NO_ELIGIBLE_ANSWER"} =>
         /\ calls[r].llm = 0
         /\ llm_outcome[r] = ""
         /\ Recs(r) = <<>>
         /\ response[r].status = 200
         /\ response[r].recommendations = <<>>
         /\ response[r].answer = result[r][1].answer
    /\ pc[r] = "EMPTY_ANSWER" =>
         /\ result[r][1].answer = EMPTY_ANSWER
         /\ IsBlank(request[r].question)
    /\ pc[r] = "NO_MATCH_ANSWER" =>
         /\ result[r][1].answer = NO_MATCH_ANSWER
         /\ search_status[r] = 200 /\ chunks[r] = <<>>
    /\ pc[r] = "NO_ELIGIBLE_ANSWER" =>
         /\ result[r][1].answer = NO_ELIGIBLE_ANSWER
         /\ chunks[r] # <<>> /\ filtered_events[r] = <<>>

\* the no-eligible outcome for a search result whose chunks all have an owner
C11_Witness ==
  /\ pc[1] = "NO_ELIGIBLE_ANSWER"
  /\ sorted_events[1] # <<>>
  /\ result[1] = Some([answer |-> NO_ELIGIBLE_ANSWER, recommendations |-> <<>>])

NoStoredData(r) ==
  /\ request[r].physician_id # None
  /\ \/ request[r].physician_id[1] # KnownPid
     \/ db.physician = None /\ db.pref = None /\ db.completed = {}

RecsAlone(d, idx, req, maxEv) ==
  IF Strip(req.question) = <<>> \/ idx = <<>> THEN <<>>
  ELSE LET sorted == SortEvents(GroupChunks(idx, 0, <<>>))
           by_id == LoadEvents(d, CandidateIds(sorted))
           prof == build_effective_physician_profile(d, req)
       IN BuildRecommendations(SelectEvents(sorted, by_id, prof, maxEv))

\* C14: no step of the pipeline changes the relational store, and however
\* the steps of two requests interleave, each request that got the chunk
\* list returns the recommendation list it returns when run alone against
\* the same store.
C14_ReadOnlyAndIsolated ==
  /\ [][db' = db]_vars
  /\ [](\A r \in Runs :
          (result[r] # None /\ search_status[r] = 200) =>
            Recs(r) = RecsAlone(db, index, request[r], max_events))

\* two different requests, both past their filter at the same time, that
\* end with different lists
C14_Witness ==
  /\ pc[1] = "RESPONSE"
  /\ pc[2] = "RECOMMENDATION_BUILD"
  /\ profile[1] # profile[2]
  /\ Recs(1) # BuildRecommendations(filtered_events[2])

\* the two requests differ in credit_type and in nothing else
DifferOnlyInCreditType ==
  /\ request[1].credit_type # request[2].credit_type
  /\ request[1] = [request[2] EXCEPT !.credit_type = request[1].credit_type]

\* C20: two requests that differ only in credit_type, run against the same
\* chunk list, profile data and metadata, return the same recommendation list
\* (ids, order, ranks, scores): a mismatch excludes and reorders nothing.
C20_CreditTypeIsSoft ==
  (DifferOnlyInCreditType /\ result[1] # None /\ result[2] # None) =>
    /\ Recs(1) = Recs(2)
    /\ IdsOf(filtered_events[1]) = IdsOf(filtered_events[2])

\* one request asks for a credit type that a recommended event does not have
C20_Witness ==
  /\ DifferOnlyInCreditType
  /\ pc[1] = "RESPONSE" /\ pc[2] = "RESPONSE"
  /\ request[1].credit_type = None
  /\ \E k \in 1..Len(filtered_events[2]) :
       CreditTypeMismatch(filtered_events[2][k].ev, request[2].credit_type)

\* the stages of run_cme_query in the order of the code
StageNo(stage) ==
  CASE stage = "RECEIVED" -> 0
    [] stage = "VECTOR_SEARCH" -> 1
    [] stage = "PROFILE_BUILD" -> 2
    [] stage = "AGGREGATE" -> 3
    [] stage = "METADATA_LOAD" -> 4
    [] stage = "FILTER" -> 5
    [] stage = "CONTEXT_BUILD" -> 6
    [] stage = "LLM_CALL" -> 7
    [] stage = "RECOMMENDATION_BUILD" -> 8
    [] OTHER -> 9

\* the ways out of the sequence of stages
StageExits ==
  {<<"RECEIVED", "EMPTY_ANSWER">>, <<"VECTOR_SEARCH", "NO_MATCH_ANSWER">>,
   <<"VECTOR_SEARCH", "FAILED">>, <<"FILTER", "NO_ELIGIBLE_ANSWER">>,
   <<"RECOMMENDATION_BUILD", "RESPONSE">>, <<"RECOMMENDATION_BUILD", "FAILED">>}

InStageOrder(from, to) ==
  \/ StageNo(from) < 8 /\ StageNo(to) = StageNo(from) + 1
  \/ <<from, to>> \in StageExits

\* C15: an execution of run_cme_query goes through the stages question
\* check, search, profile build, aggregation, metadata load, filter, context
\* build, language-model call, recommendation build in this order, each at
\* most once; the profile store is queried only after the search returned
\* chunks, the language model is called only with a non-empty candidate list,
\* and after the language-model call the recommendation build always follows.
C15_StageOrder ==
  /\ [][\A r \in Runs : pc'[r] # pc[r] => InStageOrder(pc[r], pc'[r])]_vars
  /\ [](\A r \in Runs :
          /\ calls[r].search <= 1 /\ calls[r].profile <= 1
          /\ calls[r].metadata <= 1 /\ calls[r].llm <= 1
          /\ calls[r].search = 1 <=> search_status[r] # 0
          /\ calls[r].search = 1 => question[r] # <<>>
          /\ calls[r].metadata = 1 => calls[r].profile = 1
          /\ calls[r].profile = 1 => (search_status[r] = 200 /\ chunks[r] # <<>>)
          /\ calls[r].profile = 1 <=> profile[r] # None
          /\ calls[r].llm = 1 => (filtered_events[r] # <<>> /\ context_blocks[r] # <<>>)
          /\ calls[r].llm = 1 <=> llm_outcome[r] # "")
  /\ (calls[1].llm = 1) ~> (pc[1] \in {"RESPONSE", "FAILED"})
  /\ \A r \in Runs : [](calls[r].llm = 1 =>
                           pc[r] \in {"RECOMMENDATION_BUILD", "RESPONSE", "FAILED"})

\* the language model failed and the recommendation build followed
C15_Witness ==
  /\ pc[1] = "RESPONSE"
  /\ calls[1] = [search |-> 1, profile |-> 1, metadata |-> 1, llm |-> 1]
  /\ llm_outcome[1] = "api_error"
  /\ Len(Recs(1)) = 2

\* the stages at which the selection of execution r is made
Selected ==
  {"CONTEXT_BUILD", "LLM_CALL", "RECOMMENDATION_BUILD", "RESPONSE", "NO_ELIGIBLE_ANSWER"}

\* the ids, in score order, of the candidates that have a row and pass the predicate
EligibleIds(r) ==
  LET Passes(entry) ==
        /\ HasRow(entry)
        /\ _eligible(db.events[entry.id][1], profile[r][1])
  IN IdsOf(SelectSeq(sorted_events[r], Passes))

\* C16 (as claimed): when no candidate passes the filter predicate, the
\* selection is the first max_events candidates, in descending score order,
\* among those whose metadata is present, so the no-eligible answer is given
\* only when no candidate has metadata.
C16_FallbackTakesTopWithMetadata ==
  \A r \in Runs :
    (pc[r] \in Selected /\ EligibleIds(r) = <<>>) =>
      /\ IdsOf(filtered_events[r]) = Prefix(IdsOf(CandidatesWithRow(r)), max_events)
      /\ pc[r] = "NO_ELIGIBLE_ANSWER" <=> CandidatesWithRow(r) = <<>>

\* C17: when a candidate with metadata passes the filter predicate, the
\* selection is exactly the first max_events candidates, in descending score
\* order, among those that have metadata and pass: the others are skipped
\* without using up a place, and the returned list holds the same ids.
C17_FilterTakesTopEligible ==
  \A r \in Runs :
    (pc[r] \in Selected /\ EligibleIds(r) # <<>>) =>
      /\ pc[r] # "NO_ELIGIBLE_ANSWER"
      /\ IdsOf(filtered_events[r]) = Prefix(EligibleIds(r), max_events)
      /\ pc[r] = "RESPONSE" => RecIds(r) = Prefix(EligibleIds(r), max_events)

\* the top-scored candidate is skipped and a lower-scored one is selected
C17_Witness ==
  /\ pc[1] = "RESPONSE"
  /\ Len(sorted_events[1]) = 2
  /\ max_events = 1
  /\ EligibleIds(1) = <<sorted_events[1][2].id>>
  /\ RecIds(1) = <<sorted_events[1][2].id>>

\* execution r has made its selection and event 1 is in it
PastFilter(r) == pc[r] \in {"CONTEXT_BUILD", "LLM_CALL", "RECOMMENDATION_BUILD", "RESPONSE"}
Event1Selected(r) == \E k \in 1..Len(filtered_events[r]) : filtered_events[r][k].id = 1

\* the format rule as claimed, for event 1 and the effective profile of r
FormatRuleAsClaimed(r) ==
  LET pf == profile[r][1].preferred_format
      fmt == db.events[1][1].format
  IN \/ pf = None
     \/ Lower(Strip(pf[1])) = <<>>
     \/ fmt = None
     \/ IsBlank(fmt[1])
     \/ Lower(Strip(fmt[1])) = Lower(Strip(pf[1]))

\* the credit rule as claimed, for event 1 and the effective profile of r
CreditRuleAsClaimed(r) ==
  LET mc == profile[r][1].min_credits
      cr == db.events[1][1].credits
  IN \/ mc = None
     \/ cr = None /\ mc[1] <= 0
     \/ cr # None /\ cr[1] >= mc[1]

\* C18: with preferred_format set in the effective profile, a candidate
\* passes the format rule exactly if its stored format is null, empty or
\* whitespace, or equals the normalized preference once lowercased and
\* trimmed; a preference that normalizes to the empty string is no rule.
C18_FormatRule ==
  \A r \in Runs :
    (PastFilter(r) /\ CreditRuleAsClaimed(r)) =>
      (Event1Selected(r) <=> FormatRuleAsClaimed(r))

\* a stored format that differs from the preference only in case and blanks
C18_Witness ==
  /\ pc[1] = "RESPONSE"
  /\ request[1].preferred_format = Some(<<" ", "Online">>)
  /\ db.events[1][1].format = Some(<<"\t", "Online", " ">>)
  /\ RecIds(1) = <<1, 2>>

\* C19: with min_credits set, a candidate passes the credit rule exactly if
\* its credit count is at least min_credits, a null count being 0 (it fails
\* every positive min_credits and passes 0 and negative ones); with
\* min_credits unset no candidate is excluded.
C19_CreditRule ==
  \A r \in Runs :
    (PastFilter(r) /\ FormatRuleAsClaimed(r)) =>
      (Event1Selected(r) <=> CreditRuleAsClaimed(r))

\* a null credit count against min_credits 0
C19_Witness ==
  /\ pc[1] = "RESPONSE"
  /\ request[1].min_credits = Some(0)
  /\ db.events[1][1].credits = None
  /\ RecIds(1) = <<1, 2>>

\* the position (from 1) of the first chunk of entity e in the search result
FirstChunkOf(chs, e) ==
  CHOOSE i \in 1..Len(chs) :
    /\ chs[i].source_id = Some(e)
    /\ \A j \in 1..(i - 1) : chs[j].source_id # Some(e)

\* C21: the candidates are ordered by descending aggregate score, and of two
\* candidates with the same score the one whose first chunk came earlier in
\* the search result comes first.
C21_DescendingAndStable ==
  \A r \in Runs :
    pc[r] \in Aggregated =>
      \A k \in 1..(Len(sorted_events[r]) - 1) :
        LET a == sorted_events[r][k]
            b == sorted_events[r][k + 1]
        IN \/ a.score > b.score
           \/ /\ a.score = b.score
              /\ FirstChunkOf(chunks[r], a.id) < FirstChunkOf(chunks[r], b.id)

\* two candidates with the same score, the first encountered not being the
\* one with the smaller id
C21_Witness ==
  /\ pc[1] = "METADATA_LOAD"
  /\ Len(sorted_events[1]) = 2
  /\ sorted_events[1][1].score = sorted_events[1][2].score
  /\ IdsOf(sorted_events[1]) = <<2, 1>>

\* the preference row stored for the physician id of request r forbids travel:
\* its travel_pref is no_travel or local_only, in any letter case
StoredPrefForbidsTravel(r) ==
  /\ request[r].physician_id = Some(KnownPid)
  /\ db.pref # None
  /\ db.pref[1].travel_pref # None
  /\ \/ Lower(db.pref[1].travel_pref[1]) = <<"no_travel">>
     \/ Lower(db.pref[1].travel_pref[1]) = <<"local_only">>

C23_NormalizedScores ==
  \A r \in Runs :
    /\ pc[r] \in Aggregated =>
         \A k \in 1..Len(sorted_events[r]) : sorted_events[r][k].score >= 1
    /\ result[r] # None =>
         LET top == IF Recs(r) = <<>> THEN 1
                    ELSE RankSum(chunks[r], Recs(r)[1].cme_event_id, 0)
         IN \A k \in 1..Len(Recs(r)) :
              LET sc == Recs(r)[k].score
                  agg == RankSum(chunks[r], Recs(r)[k].cme_event_id, 0)
              IN /\ top >= 1
                 /\ sc.den >= 1
                 /\ sc.num * top = agg * sc.den
                 /\ 0 <= sc.num /\ sc.num <= sc.den
                 /\ k > 1 => sc.num * Recs(r)[k - 1].score.den
                               <= Recs(r)[k - 1].score.num * sc.den

\* the second recommendation has half the score of the first
C23_Witness ==
  /\ pc[1] = "RESPONSE"
  /\ Len(Recs(1)) = 2
  /\ Recs(1)[1].score = [num |-> 1, den |-> 1]
  /\ Recs(1)[2].score = [num |-> 1, den |-> 2]

\* the placeholder title f"CME {cme_id}"
PlaceholderTitle(cme_id) == Some(<<"CME", " ", ToString(cme_id)>>)

RECURSIVE TotalScore(_, _)
TotalScore(entries, k) ==
  IF k > Len(entries) THEN 0 ELSE entries[k].score + TotalScore(entries, k + 1)

\* the sum of (N - i) over the 0-based positions i, from i on, of the chunks
\* of a list of N chunks that have no owner
RECURSIVE OwnerlessRankSum(_, _)
OwnerlessRankSum(chs, i) ==
  IF i >= Len(chs) THEN 0
  ELSE (IF chs[i + 1].source_id = None THEN Len(chs) - i ELSE 0)
       + OwnerlessRankSum(chs, i + 1)

\* C25: a chunk without owner makes no candidate and enters no candidate's
\* score or chunk list, yet it counts in the number of chunks N and keeps its
\* position: every owned chunk at 0-based position i still adds N - i, so the
\* candidates' scores add up to N(N+1)/2 less the rank-scores of the
\* ownerless chunks.
C25_OwnerlessChunks ==
  \A r \in Runs :
    pc[r] \in Aggregated =>
      LET N == Len(chunks[r]) IN
      /\ Len(sorted_events[r]) =
           Cardinality({o \in {chunks[r][i].source_id : i \in 1..N} : o # None})
      /\ \A k \in 1..Len(sorted_events[r]) :
           LET e == sorted_events[r][k]
               Own(ch) == ch.source_id = Some(e.id)
           IN /\ e.chunks = SelectSeq(chunks[r], Own)
              /\ e.score = RankSum(chunks[r], e.id, 0)
      /\ 2 * (TotalScore(sorted_events[r], 1) + OwnerlessRankSum(chunks[r], 0))
           = N * (N + 1)

\* an ownerless chunk ahead of the chunks of two entities
C25_Witness ==
  /\ pc[1] = "METADATA_LOAD"
  /\ OwnersOf(chunks[1]) = <<None, Some(1), Some(2)>>
  /\ IdsOf(sorted_events[1]) = <<1, 2>>
  /\ sorted_events[1][1].score = 2
  /\ sorted_events[1][2].score = 1

\* no value occurs at two positions of the sequence
NoRepeats(seq) == \A i, j \in 1..Len(seq) : seq[i] = seq[j] => i = j

\* C26: no entity id occurs twice in the recommendations of a request,
\* whether the events were selected by the filter or by the fallback, and
\* however many chunks of the search result one entity owns.
C26_NoEntityTwice ==
  \A r \in Runs :
    /\ pc[r] \in Aggregated => NoRepeats(IdsOf(sorted_events[r]))
    /\ pc[r] \in Selected => NoRepeats(IdsOf(filtered_events[r]))
    /\ pc[r] = "RESPONSE" => NoRepeats(RecIds(r))

\* the fallback path, with two chunks of entity 1 around a chunk of entity 2
C26_Witness ==
  /\ pc[1] = "RESPONSE"
  /\ OwnersOf(chunks[1]) = <<Some(1), Some(2), Some(1)>>
  /\ EligibleIds(1) = <<>>
  /\ RecIds(1) = <<1, 2>>

\* the same search result on the filtered path
C26_FilteredPath ==
  /\ pc[1] = "RESPONSE"
  /\ OwnersOf(chunks[1]) = <<Some(1), Some(2), Some(1)>>
  /\ EligibleIds(1) = <<1, 2>>
  /\ RecIds(1) = <<1, 2>>

\* the entity ids of the context blocks of execution r, in order
ContextIds(r) == [k \in 1..Len(context_blocks[r]) |-> context_blocks[r][k].cme_id]

\* C27: the context blocks given to the language model and the
\* recommendations returned are the same sequence of entities: as many blocks
\* as recommendations, the k-th block and the k-th recommendation carrying the
\* same entity id and both the rank k.
C27_ContextMatchesRecommendations ==
  \A r \in Runs :
    pc[r] = "RESPONSE" =>
      /\ Len(context_blocks[r]) = Len(Recs(r))
      /\ \A k \in 1..Len(Recs(r)) :
           /\ context_blocks[r][k].cme_id = Recs(r)[k].cme_event_id
           /\ context_blocks[r][k].rank = k
           /\ Recs(r)[k].rank = k
      /\ {context_blocks[r][k].cme_id : k \in 1..Len(context_blocks[r])}
           = {Recs(r)[k].cme_event_id : k \in 1..Len(Recs(r))}

\* two entities, the lower id ranked second, in the context and in the answer
C27_Witness ==
  /\ pc[1] = "RESPONSE"
  /\ ContextIds(1) = <<2, 1>>
  /\ RecIds(1) = <<2, 1>>
  /\ Recs(1)[2].rank = 2
  /\ context_blocks[1][2].rank = 2

\* the knowledge_chunk ids of the cme_event rows of embedding_store, in
\* insertion order
CmeEmbeddingIds ==
  LET cme == SelectSeq(embedding_store, IsCmeEvent)
  IN [k \in 1..Len(cme) |-> cme[k].knowledge_chunk_id]

\* the ids of the cme_event knowledge chunks, ascending
CmeChunkIds ==
  LET rows == RowsById(knowledge_chunk, {CME_EVENT})
  IN [k \in 1..Len(rows) |-> rows[k].id]

JobEnded == job \in {"DONE", "FAILED"}

\* once the old embeddings are deleted, the cme_event embeddings are those of
\* the first `inserted` cme_event chunks in ascending id order, one each
EmbeddedSoFar ==
  job \in {"LOOP", "EMBED", "DONE", "FAILED"} =>
    /\ inserted <= Len(CmeChunkIds)
    /\ CmeEmbeddingIds = SubSeq(CmeChunkIds, 1, inserted)

\* a fetched batch is the next window of at most BATCH_SIZE cme_event chunks
\* in ascending id order, and only the last window is shorter
BatchIsNextWindow ==
  job = "EMBED" =>
    /\ offset % BATCH_SIZE = 0
    /\ offset = inserted
    /\ Len(batch) = Smaller(BATCH_SIZE, Len(CmeChunkIds) - offset)
    /\ Len(batch) >= 1
    /\ \A k \in 1..Len(batch) :
         /\ batch[k].id = CmeChunkIds[offset + k]
         /\ batch[k].source_type = CME_EVENT
         /\ k > 1 => batch[k - 1].id < batch[k].id

\* on completion every cme_event chunk has exactly one embedding, and no
\* cme_event embedding belongs to anything else
OneEmbeddingEach ==
  job = "DONE" =>
    /\ inserted = total_chunks
    /\ Len(CmeEmbeddingIds) = total_chunks
    /\ \A i \in ChunkIds \cup {MaxRows + 1} :
         Cardinality({k \in 1..Len(embedding_store) :
                        /\ IsCmeEvent(embedding_store[k])
                        /\ embedding_store[k].knowledge_chunk_id = i})
         = IF i \in DOMAIN knowledge_chunk /\ knowledge_chunk[i] = CME_EVENT
           THEN 1 ELSE 0

\* nothing is written before the deletion, and the deletion leaves no
\* cme_event embedding
DeletesFirst ==
  /\ job = "COUNT" => embedding_store' = embedding_store
  /\ job = "DELETE" => CmeEmbeddingIds' = <<>>
  /\ knowledge_chunk' = knowledge_chunk

\* C28: run on an unchanged set of cme_event knowledge chunks,
\* regenerate_all_embeddings comes to an end; it deletes every cme_event
\* embedding before it writes one; it fetches the chunks in windows of 64 in
\* ascending id order; and when it completes, embedding_store holds exactly
\* one embedding for each cme_event knowledge chunk.
C28_RegenerationCompletes ==
  /\ [](EmbeddedSoFar /\ BatchIsNextWindow /\ OneEmbeddingEach)
  /\ [][DeletesFirst]_vars
  /\ <>JobEnded

\* a completed run over 65 cme_event chunks among chunks of another source,
\* in two batches, that began with old embeddings in the store
C28_Witness ==
  /\ job = "DONE"
  /\ total_chunks = BATCH_SIZE + 1
  /\ inserted = BATCH_SIZE + 1
  /\ offset = 2 * BATCH_SIZE
  /\ Len(batch) = 1
  /\ Len(embedding_store) > total_chunks
  /\ \E i \in DOMAIN knowledge_chunk : knowledge_chunk[i] = OTHER_SOURCE

====
